---- MODULE Spec2Model ----
(***************************************************************************)
(* A model of the FTP/FTPS client engine of src/ftp.go (package sftps).     *)
(*                                                                         *)
(* The session (type Ftp) is the variable ftp, its parameters the variable *)
(* params.  Every operation of the engine (connect, auth, options, list,   *)
(* download, upload, rename, mkdir, rmdir, delete, quit) is one action: it  *)
(* runs the whole method, deferred calls included, against the outcomes    *)
(* the environment (server, network, file system) produces for its steps,  *)
(* and leaves what the caller gets back in the variable call.              *)
(*                                                                         *)
(* The numeric conversions of the PORT and PASV exchanges are operators on *)
(* digit strings; they are explored exhaustively by the specifications     *)
(* SpecPort and SpecPasv.                                                  *)
(***************************************************************************)
EXTENDS Integers, Sequences, FiniteSets, TLC

VARIABLES
    params,   \* Ftp.params: the session parameters (immutable)
    ftp,      \* the Ftp struct: rawConn, tlsConn, ctrlConn, State
    hist,     \* history of the session: what has happened on the wire
    call,     \* the last operation called and what it returned
    codec     \* the numeric conversion last applied, its input and output

vars == <<params, ftp, hist, call, codec>>

(***************************************************************************)
(* Bounds of the model.                                                    *)
(***************************************************************************)
\* listen ports explored by SpecPort: 0 .. MaxListenPort (above 16 bits too)
MaxListenPort == 65540
\* port octets of a PASV reply explored by SpecPasv: 0 .. MaxOctet
MaxOctet == 258

(***************************************************************************)
(* Text.  A string of digits is a sequence of digit values: decimal text   *)
(* over 0..9, hexadecimal text over 0..15.                                 *)
(***************************************************************************)
RECURSIVE FormatBase(_, _)
\* fmt.Sprintf("%x", n) (base 16) and the "%d" of a peer (base 10), n >= 0:
\* the shortest digit string, no padding.
FormatBase(n, base) ==
    IF n < base THEN <<n>>
    ELSE Append(FormatBase(n \div base, base), n % base)

RECURSIVE ParseBase(_, _)
\* the value of a digit string, most significant digit first
ParseBase(digits, base) ==
    IF Len(digits) = 0 THEN 0
    ELSE ParseBase(SubSeq(digits, 1, Len(digits) - 1), base) * base
         + digits[Len(digits)]

\* strconv.Atoi on a string the pattern [0-9]+ matched
Atoi(dec) == ParseBase(dec, 10)

\* Ftp.ds2h: decimal text to hexadecimal text, unpadded ("%x")
ds2h(dec) == FormatBase(Atoi(dec), 16)

\* Ftp.h2i: hexadecimal text to int; a parse error is swallowed (the inner
\* e shadows nothing that is returned) and yields 0 with a nil error.
h2i(hex) == IF Len(hex) = 0 THEN 0 ELSE ParseBase(hex, 16)

\* The port Ftp.pasv dials for the port octets tmp[5], tmp[6] of the reply
\* (decimal text): two unpadded hex strings concatenated, parsed as one.
pasvPort(tmp5, tmp6) == h2i(ds2h(tmp5) \o ds2h(tmp6))

\* getSplitPorts with the three-digit case cut after two digits, as the
\* four-digit case is
getSplitPorts_CutAfterTwo(listenPort) ==
    LET hex == FormatBase(listenPort, 16)
    IN  CASE Len(hex) \in {1, 2} ->
               [port1 |-> 0, port2 |-> h2i(hex), err |-> "nil"]
          [] Len(hex) \in {3, 4} ->
               [port1 |-> h2i(SubSeq(hex, 1, 2)),
                port2 |-> h2i(SubSeq(hex, 3, Len(hex))), err |-> "nil"]
          [] OTHER ->
               [port1 |-> 0, port2 |-> 0, err |-> "port format"]

\* Ftp.getSplitPorts: the two octets of the PORT command, or an error.
getSplitPorts(listenPort) ==
    LET hex == FormatBase(listenPort, 16)
    IN  CASE Len(hex) \in {1, 2} ->
               [port1 |-> 0, port2 |-> h2i(hex), err |-> "nil"]
          [] Len(hex) = 3 ->
               [port1 |-> h2i(SubSeq(hex, 1, 1)),
                port2 |-> h2i(SubSeq(hex, 2, 3)), err |-> "nil"]
          [] Len(hex) = 4 ->
               [port1 |-> h2i(SubSeq(hex, 1, 2)),
                port2 |-> h2i(SubSeq(hex, 3, 4)), err |-> "nil"]
          [] OTHER ->
               [port1 |-> 0, port2 |-> 0, err |-> "port format"]

\* the longest list of interface addresses explored by SpecLocalIP
MaxAddrs == 3

\* one address of net.InterfaceAddrs: its text, whether it is a loopback
\* address, whether it is an IPv4 address (To4() is not nil)
Addr(ip, loopback, v4) == [ip |-> ip, loopback |-> loopback, v4 |-> v4]

\* the interface addresses the lists of SpecLocalIP are made of
InterfaceAddrs ==
    {Addr("127.0.0.1", TRUE, TRUE), Addr("::1", TRUE, FALSE),
     Addr("192.168.1.10", FALSE, TRUE), Addr("10.0.0.7", FALSE, TRUE),
     Addr("fe80::1", FALSE, FALSE)}

RECURSIVE scanAddrs(_, _)
\* the loop of Ftp.getLocalIP: ip is assigned at every address that is not
\* a loopback address and is an IPv4 address
scanAddrs(addrs, ip) ==
    IF addrs = <<>> THEN ip
    ELSE scanAddrs(Tail(addrs),
                   IF ~Head(addrs).loopback /\ Head(addrs).v4
                   THEN Head(addrs).ip ELSE ip)

\* Ftp.getLocalIP on the interface addresses addrs
getLocalIP(addrs) ==
    LET ip == scanAddrs(addrs, "")
    IN  [ip |-> ip, err |-> IF ip = "" THEN "localip" ELSE "nil"]

(***************************************************************************)
(* The session.                                                            *)
(***************************************************************************)
OFFLINE == "OFFLINE"
ONLINE == "ONLINE"
IMPLICIT == "IMPLICIT"
EXPLICIT == "EXPLICIT"

\* listen ports of the sessions explored by Spec: one of 16 bits, one above
SampleListenPorts == {21000, 70000}
\* the six numbers of the PASV replies the server of Spec sends: those of
\* "227 Entering Passive Mode (10,0,0,5,200,13)" and of a reply that differs
\* from it in the address octets only
SampleOctets == {<<10, 0, 0, 5, 200, 13>>, <<203, 0, 113, 11, 200, 13>>}
\* what net.LookupIP(host) returns for the host of the control connection
HostIPs == <<<<203, 0, 113, 10>>, <<203, 0, 113, 11>>>>

\* the session parameters the engine reads (type ftpParameters)
Params ==
    [secure : BOOLEAN, secureMode : {IMPLICIT, EXPLICIT}, passive : BOOLEAN,
     keepAlive : BOOLEAN, listenPort : SampleListenPorts]

\* the sessions Spec explores: a passive session never reads its listen
\* port, so one listen port stands for all of them there
Sessions == {p \in Params : p.passive => p.listenPort = 21000}

\* newFtp: no handle, State OFFLINE
newFtp ==
    [rawConn |-> "nil", tlsConn |-> "nil", ctrlConn |-> "nil",
     ctrlClosed |-> FALSE, State |-> OFFLINE]

\* a nil *FtpResponse
nilResponse == [command |-> "nil", code |-> 0]

\* type FtpResponse as the engine fills it: the command and the status code
FtpResponse(cmd, code) == [command |-> cmd, code |-> code]

\* one thing the engine did: ev is what ("send": a command written,
\* "sendfail": its write failed, "recv": a response read, "ioerr": its read
\* failed, "dial", "upgrade", "listen", "accept", "wrap", "read", "open",
\* "copy", "close"), cmd the command or the resource, tls whether the
\* channel used was TLS-wrapped, code a status code or a port
Event(ev, cmd, tls, code) ==
    [ev |-> ev, cmd |-> cmd, tls |-> tls, code |-> code]

(***************************************************************************)
(* The environment: the outcome of each step of an operation that depends  *)
(* on the server, the network or the file system.  An exchange ends "ok"   *)
(* (the expected status code), "code" (another status code, 550) or "io"   *)
(* (the read of the response fails); another step ends "ok" or "fail".     *)
(* An operation returns at its first failing step, so its behaviours are   *)
(* those with at most one failing step, plus the outcome of the QUIT a     *)
(* deferred quit sends.                                                    *)
(***************************************************************************)
NoFail == <<"none", "ok">>

Exchange(step) == {<<step, "code">>, <<step, "io">>}

Outcomes(fp, quitOutcome, octets) ==
    [fail |-> fp, quit |-> quitOutcome, octets |-> octets]

\* the outcome of step s under env
Outcome(env, s) ==
    IF s = "QUIT" THEN env.quit
    ELSE IF s = env.fail[1] THEN env.fail[2] ELSE "ok"

\* the status code the server sends where the engine expects `code`
ServerCode(code, outcome) == IF outcome = "ok" THEN code ELSE 550

(***************************************************************************)
(* The run of one operation: the session, the history, the named results   *)
(* (res, err), the last response read (r), the events so far, the deferred *)
(* calls of the function running, the data channel handle (itf), and the  *)
(* errors raised so far, returned or not (failures).                       *)
(***************************************************************************)
\* no PASV reply has been matched against the pattern of six numbers
NoReply == [seen |-> FALSE, nums |-> <<>>]

\* no data connection has been dialed
NoDial == [addr |-> <<>>, port |-> 0]

Start ==
    [ftp |-> ftp, hist |-> hist, res |-> <<>>, r |-> nilResponse,
     err |-> "nil", trace |-> <<>>, panicked |-> FALSE, defers |-> <<>>,
     itf |-> "nil", failures |-> <<>>, reply |-> NoReply, dial |-> NoDial]

Failed(st) == st.err # "nil" \/ st.panicked

\* res = append(res, r)
Push(st) == [st EXCEPT !.res = Append(@, st.r)]

Log(st, e) == [st EXCEPT !.trace = Append(@, e)]

\* err = e; the function's other results stay as they are
Error(st, e) == [st EXCEPT !.err = e, !.failures = Append(@, e)]

\* a run-time fault (nil dereference, index out of range): nothing returns
Panic(st) == [st EXCEPT !.panicked = TRUE, !.r = nilResponse]

\* defer x.Close()
Defer(st, x) == [st EXCEPT !.defers = Append(@, x)]

RECURSIVE CloseAll(_, _)
\* the deferred Close calls run last-in first-out when the function returns
CloseAll(st, ds) ==
    IF Len(ds) = 0 THEN [st EXCEPT !.defers = <<>>]
    ELSE CloseAll(Log(st, Event("close", ds[Len(ds)], FALSE, 0)),
                  SubSeq(ds, 1, Len(ds) - 1))

RunDefers(st) == CloseAll(st, st.defers)

\* the replies the server has sent, or will send, that the engine has not
\* read when the read at hand is done.  The server follows a 150 with the
\* reply that ends the transfer, so after a 150 that reply is owed
\* ("completion"); the read that confirms the transfer (cmd = "") takes
\* it.  A command written while a reply is owed is answered by that older
\* reply and its own reply stays behind: from then on every read is one
\* reply late ("shifted").  A confirming read that fails leaves nothing
\* owed: the reply is taken to be lost with the read.
Unread(owed, cmd, actual) ==
    CASE owed = "none" -> IF actual = 150 THEN "completion" ELSE "none"
      [] owed = "completion" -> IF cmd = "" THEN "none" ELSE "shifted"
      [] OTHER -> "shifted"

\* textproto ReadResponse(code) on the control channel: the oldest unread
\* reply is read.  The reply that ends a transfer (226 here) is never the
\* one a command expects; a later reply read one late may have any code.
ReadResponse(st, cmd, code, outcome) ==
    IF outcome = "io"
    THEN [Error(Log(st, Event("ioerr", cmd, st.ftp.ctrlConn = "tls", 0)), "io")
             EXCEPT !.r = nilResponse,
                    !.hist.unread = IF @ = "completion" /\ cmd = ""
                                    THEN "none" ELSE @]
    ELSE LET stale == st.hist.unread = "completion" /\ cmd # ""
             actual == IF stale THEN 226 ELSE ServerCode(code, outcome)
             st1 == [Log(st, Event("recv", cmd, st.ftp.ctrlConn = "tls",
                                   actual))
                        EXCEPT !.hist.unread = Unread(@, cmd, actual)]
         IN  IF actual # code
             THEN [Error(st1, "protocol") EXCEPT !.r = nilResponse]
             ELSE [st1 EXCEPT !.r = FtpResponse(cmd, actual)]

\* Ftp.Command: write cmd, read one response, require `code`; the write
\* fails on a control connection that quit has closed
Command(st, cmd, code, outcome) ==
    IF st.ftp.ctrlClosed
    THEN [Error(Log(st, Event("sendfail", cmd, st.ftp.ctrlConn = "tls", 0)),
                "io") EXCEPT !.r = nilResponse]
    ELSE LET sent == Log(st, Event("send", cmd, st.ftp.ctrlConn = "tls", 0))
             got == ReadResponse(
                        [sent EXCEPT !.hist.userSent = @ \/ cmd = "USER"],
                        cmd, code, outcome)
         IN  [got EXCEPT !.hist.protOK = @ \/ (cmd = "PROT P" /\ ~Failed(got))]

\* Ftp.getTLSConfig: fails when the certificate material cannot be loaded
getTLSConfig(env) == Outcome(env, "tlsconf") = "ok"

(***************************************************************************)
(* Transport and security.                                                 *)
(***************************************************************************)
\* connect with State set to ONLINE once the connection is dialed, before
\* the greeting is read
connect_OnlineAtDial(st, env) ==
    LET implicit == params.secure /\ params.secureMode = IMPLICIT
        dialed ==
            IF implicit
            THEN [Log(st, Event("dial", "ctrl", TRUE, 0)) EXCEPT
                     !.ftp.tlsConn = "open", !.ftp.ctrlConn = "tls",
                     !.ftp.ctrlClosed = FALSE, !.ftp.State = ONLINE]
            ELSE [Log(st, Event("dial", "ctrl", FALSE, 0)) EXCEPT
                     !.ftp.rawConn = "open", !.ftp.ctrlConn = "raw",
                     !.ftp.ctrlClosed = FALSE, !.ftp.State = ONLINE]
        greeted == ReadResponse(dialed, "", 220, Outcome(env, "greet"))
    IN  IF Outcome(env, "lookup") # "ok" THEN Error(st, "resolve")
        ELSE IF implicit /\ ~getTLSConfig(env) THEN Error(st, "tlsconfig")
        ELSE IF Outcome(env, "dial") # "ok" THEN Error(st, "dial")
        ELSE IF Failed(greeted) THEN greeted
        ELSE Push(greeted)

\* Ftp.connect
connect(st, env) ==
    LET implicit == params.secure /\ params.secureMode = IMPLICIT
        dialed ==
            IF implicit
            THEN [Log(st, Event("dial", "ctrl", TRUE, 0)) EXCEPT
                     !.ftp.tlsConn = "open", !.ftp.ctrlConn = "tls",
                     !.ftp.ctrlClosed = FALSE]
            ELSE [Log(st, Event("dial", "ctrl", FALSE, 0)) EXCEPT
                     !.ftp.rawConn = "open", !.ftp.ctrlConn = "raw",
                     !.ftp.ctrlClosed = FALSE]
        greeted == ReadResponse(dialed, "", 220, Outcome(env, "greet"))
    IN  IF Outcome(env, "lookup") # "ok" THEN Error(st, "resolve")
        ELSE IF implicit /\ ~getTLSConfig(env) THEN Error(st, "tlsconfig")
        ELSE IF Outcome(env, "dial") # "ok"
             THEN IF implicit
                  THEN Error([st EXCEPT !.ftp.tlsConn = "nil"], "dial")
                  ELSE Error([st EXCEPT !.ftp.rawConn = "nil"], "dial")
        ELSE IF Failed(greeted) THEN greeted
        ELSE Push([greeted EXCEPT !.ftp.State = ONLINE])

\* secureUpgrade without its last line: tlsConn is made, ctrlConn still
\* reads and writes rawConn
secureUpgrade_KeepsPlainCtrl(st, env) ==
    IF ~getTLSConfig(env) THEN Error(st, "tlsconfig")
    ELSE [Log(st, Event("upgrade", "ctrl", TRUE, 0)) EXCEPT
             !.ftp.tlsConn = "open"]

\* Ftp.secureUpgrade: the control channel becomes a TLS client over rawConn
secureUpgrade(st, env) ==
    IF ~getTLSConfig(env) THEN Error(st, "tlsconfig")
    ELSE [Log(st, Event("upgrade", "ctrl", TRUE, 0)) EXCEPT
             !.ftp.tlsConn = "open", !.ftp.ctrlConn = "tls"]

(***************************************************************************)
(* Command/response engine.                                                *)
(***************************************************************************)
\* auth that takes the AUTH TLS path whenever secure is set, implicit mode
\* included
auth_ExplicitWheneverSecure(st, env) ==
    LET a == Command(st, "AUTH TLS", 234, Outcome(env, "AUTH"))
        t == secureUpgrade(Push(a), env)
        s == IF ~params.secure THEN st ELSE IF Failed(a) THEN a ELSE t
        u == Command(s, "USER", 331, Outcome(env, "USER"))
        p == Command(Push(u), "PASS", 230, Outcome(env, "PASS"))
    IN  IF Failed(s) THEN s
        ELSE IF Failed(u) THEN u
        ELSE IF Failed(p) THEN p
        ELSE Push(p)

\* Ftp.auth
auth(st, env) ==
    LET explicit == params.secure /\ params.secureMode = EXPLICIT
        a == Command(st, "AUTH TLS", 234, Outcome(env, "AUTH"))
        t == secureUpgrade(Push(a), env)
        s == IF ~explicit THEN st ELSE IF Failed(a) THEN a ELSE t
        u == Command(s, "USER", 331, Outcome(env, "USER"))
        p == Command(Push(u), "PASS", 230, Outcome(env, "PASS"))
    IN  IF Failed(s) THEN s
        ELSE IF Failed(u) THEN u
        ELSE IF Failed(p) THEN p
        ELSE Push(p)

\* options with TYPE I sent before PROT P
options_TypeBeforeProt(st, env) ==
    LET sy == Command(st, "SYST", 215, Outcome(env, "SYST"))
        fe == Command(Push(sy), "FEAT", 211, Outcome(env, "FEAT"))
        op == Command(Push(fe), "OPTS UTF8 ON", 200, Outcome(env, "OPTS"))
        ty == Command(Push(op), "TYPE I", 200, Outcome(env, "TYPE"))
        pr == Command(Push(ty), "PROT P", 200, Outcome(env, "PROT"))
    IN  IF Failed(sy) THEN sy
        ELSE IF Failed(fe) THEN fe
        ELSE IF Failed(op) THEN op
        ELSE IF Failed(ty) THEN ty
        ELSE IF ~params.secure THEN Push(ty)
        ELSE IF Failed(pr) THEN pr
        ELSE Push(pr)

\* Ftp.options
options(st, env) ==
    LET sy == Command(st, "SYST", 215, Outcome(env, "SYST"))
        fe == Command(Push(sy), "FEAT", 211, Outcome(env, "FEAT"))
        op == Command(Push(fe), "OPTS UTF8 ON", 200, Outcome(env, "OPTS"))
        pr == Command(Push(op), "PROT P", 200, Outcome(env, "PROT"))
        s  == IF params.secure THEN (IF Failed(pr) THEN pr ELSE Push(pr))
              ELSE Push(op)
        ty == Command(s, "TYPE I", 200, Outcome(env, "TYPE"))
    IN  IF Failed(sy) THEN sy
        ELSE IF Failed(fe) THEN fe
        ELSE IF Failed(op) THEN op
        ELSE IF Failed(s) THEN s
        ELSE IF Failed(ty) THEN ty
        ELSE Push(ty)

\* rename that sends RNTO whatever became of RNFR
rename_NoAbort(st, env) ==
    LET f == Command(st, "RNFR", 350, Outcome(env, "RNFR"))
        t == Command(IF Failed(f) THEN f ELSE Push(f), "RNTO", 250,
                     Outcome(env, "RNTO"))
    IN  IF Failed(t) THEN t ELSE Push(t)

\* Ftp.rename
rename(st, env) ==
    LET f == Command(st, "RNFR", 350, Outcome(env, "RNFR"))
        t == Command(Push(f), "RNTO", 250, Outcome(env, "RNTO"))
    IN  IF Failed(f) THEN f
        ELSE IF Failed(t) THEN t
        ELSE Push(t)

\* Ftp.mkdir, Ftp.rmdir, Ftp.delete: one exchange each
simple(st, cmd, code, env) ==
    LET c == Command(st, cmd, code, Outcome(env, "cmd"))
    IN  IF Failed(c) THEN c ELSE Push(c)

\* Ftp.quit: the QUIT exchange, then the deferred Close calls, last first;
\* closing a nil *tls.Conn faults, and the Close calls deferred before it
\* still run.
quit(st, env) ==
    LET c == Command(st, "QUIT", 221, Outcome(env, "QUIT"))
        s1 == IF params.secureMode # IMPLICIT
              THEN [Log(c, Event("close", "rawConn", FALSE, 0)) EXCEPT
                       !.ftp.rawConn = "closed"]
              ELSE c
        s2 == IF ~params.secure THEN s1
              ELSE IF s1.ftp.tlsConn = "nil" THEN Panic(s1)
              ELSE [Log(s1, Event("close", "tlsConn", FALSE, 0)) EXCEPT
                       !.ftp.tlsConn = "closed"]
    IN  [Log(s2, Event("close", "ctrlConn", FALSE, 0)) EXCEPT
            !.ftp.ctrlClosed = TRUE,
            !.ftp.rawConn = IF s2.ftp.ctrlConn = "raw" THEN "closed" ELSE @,
            !.ftp.tlsConn = IF s2.ftp.ctrlConn = "tls" THEN "closed" ELSE @]

(***************************************************************************)
(* Data channel negotiator.                                                *)
(***************************************************************************)
\* the numbers the pattern of Ftp.pasv finds in the reply text: tmp[1..6],
\* none when the text does not hold six comma-separated numbers
matches(env) ==
    IF Outcome(env, "pasvtext") # "ok" THEN <<>> ELSE env.octets

\* Ftp.pasv, dialing the address the reply names
pasv_DialsReplyAddress(st, env) ==
    LET c == Command(st, "PASV", 227, Outcome(env, "nego"))
        tmp == matches(env)
        port == pasvPort(FormatBase(tmp[5], 10), FormatBase(tmp[6], 10))
        m == [c EXCEPT !.reply = [seen |-> TRUE, nums |-> tmp]]
    IN  IF Failed(c) THEN c
        ELSE IF Outcome(env, "lookup") # "ok" THEN Error(c, "resolve")
        ELSE IF tmp = <<>> THEN Panic(m)
        ELSE IF Outcome(env, "dial") # "ok" THEN Error(m, "dial")
        ELSE [Log(m, Event("dial", "dataConn", FALSE, port)) EXCEPT
                 !.itf = "conn",
                 !.dial = [addr |-> SubSeq(tmp, 1, 4), port |-> port]]

\* Ftp.pasv: PASV, look the host of the control connection up, then dial
\* ip[0]:port, the port decoded from the last two numbers of the reply;
\* matches[0] of a reply without six numbers faults.
pasv(st, env) ==
    LET c == Command(st, "PASV", 227, Outcome(env, "nego"))
        tmp == matches(env)
        port == pasvPort(FormatBase(tmp[5], 10), FormatBase(tmp[6], 10))
        m == [c EXCEPT !.reply = [seen |-> TRUE, nums |-> tmp]]
    IN  IF Failed(c) THEN c
        ELSE IF Outcome(env, "lookup") # "ok" THEN Error(c, "resolve")
        ELSE IF tmp = <<>> THEN Panic(m)
        ELSE IF Outcome(env, "dial") # "ok" THEN Error(m, "dial")
        ELSE [Log(m, Event("dial", "dataConn", FALSE, port)) EXCEPT
                 !.itf = "conn",
                 !.dial = [addr |-> HostIPs[1], port |-> port]]

\* Ftp.port, going on with the octets whatever getSplitPorts reports
port_SplitUnchecked(st, env) ==
    LET c == Command(st, "PORT", 200, Outcome(env, "nego"))
    IN  IF Outcome(env, "localip") # "ok" THEN Error(st, "localip")
        ELSE IF Failed(c) THEN c
        ELSE IF Outcome(env, "listen") # "ok" THEN Error(c, "listen")
        ELSE [Log(c, Event("listen", "listener", FALSE, params.listenPort))
                 EXCEPT !.itf = "listener"]

\* Ftp.port: PORT with the local address and the split listen port, then
\* listen on the listen port
port(st, env) ==
    LET sp == getSplitPorts(params.listenPort)
        c == Command(st, "PORT", 200, Outcome(env, "nego"))
    IN  IF Outcome(env, "localip") # "ok" THEN Error(st, "localip")
        ELSE IF sp.err # "nil" THEN Error(st, sp.err)
        ELSE IF Failed(c) THEN c
        ELSE IF Outcome(env, "listen") # "ok" THEN Error(c, "listen")
        ELSE [Log(c, Event("listen", "listener", FALSE, params.listenPort))
                 EXCEPT !.itf = "listener"]

\* the data channel negotiation of list, download and upload
negotiate(st, env) == IF params.passive THEN pasv(st, env) ELSE port(st, env)

(***************************************************************************)
(* Transfer engine.                                                        *)
(***************************************************************************)
\* Ftp.readBytes without its Close calls after ReadAll: the channel is
\* closed by the deferred calls alone
readBytes_ClosesOnReturn(st, env) ==
    LET acc == IF params.passive THEN st
               ELSE Log(st, Event("accept", "dataConn", FALSE, 0))
        d == Defer(acc, "dataConn")
        w == Defer(Log(d, Event("wrap", "dataTLS", TRUE, 0)), "dataTLS")
        ch == IF params.secure THEN w ELSE d
        rd == Log(ch, Event("read", "data", params.secure, 0))
        fin == ReadResponse(rd, "", 226, Outcome(env, "226"))
    IN  IF ~params.passive /\ Outcome(env, "accept") # "ok"
        THEN Error(st, "accept")
        ELSE IF params.secure /\ ~getTLSConfig(env)
        THEN RunDefers(Error(d, "tlsconfig"))
        ELSE IF Outcome(env, "copy") # "ok" THEN RunDefers(Error(ch, "read"))
        ELSE RunDefers(fin)

\* Ftp.readBytes
readBytes(st, env) ==
    LET acc == IF params.passive THEN st
               ELSE Log(st, Event("accept", "dataConn", FALSE, 0))
        d == Defer(acc, "dataConn")
        w == Defer(Log(d, Event("wrap", "dataTLS", TRUE, 0)), "dataTLS")
        ch == IF params.secure THEN w ELSE d
        rd == Log(ch, Event("read", "data", params.secure, 0))
        cl == Log(rd, Event("close",
                            IF params.secure THEN "dataTLS" ELSE "dataConn",
                            FALSE, 0))
        fin == ReadResponse(cl, "", 226, Outcome(env, "226"))
    IN  IF ~params.passive /\ Outcome(env, "accept") # "ok"
        THEN Error(st, "accept")
        ELSE IF params.secure /\ ~getTLSConfig(env)
        THEN RunDefers(Error(d, "tlsconfig"))
        ELSE IF Outcome(env, "copy") # "ok" THEN RunDefers(Error(ch, "read"))
        ELSE RunDefers(fin)

\* Ftp.fileTransfer
fileTransfer(st, direction, env) ==
    LET d == IF params.passive THEN Defer(st, "dataConn")
             ELSE Defer(st, "listener")
        acc == IF params.passive THEN d
               ELSE Log(d, Event("accept", "dataConn", FALSE, 0))
        w == Defer(Log(acc, Event("wrap", "dataTLS", TRUE, 0)), "dataTLS")
        ch == IF params.secure THEN w ELSE acc
        rw == IF params.secure THEN "dataTLS" ELSE "dataConn"
        f == Log(ch, Event("open", "file", FALSE, 0))
        cp == Log(f, Event("copy", direction, params.secure, 0))
        r == IF direction = "DOWNLOAD" THEN rw ELSE "file"
        wr == IF direction = "DOWNLOAD" THEN "file" ELSE rw
        cl == Log(Log(cp, Event("close", r, FALSE, 0)),
                  Event("close", wr, FALSE, 0))
        fin == ReadResponse(cl, "", 226, Outcome(env, "226"))
    IN  IF ~params.passive /\ Outcome(env, "accept") # "ok"
        THEN RunDefers(Error(d, "accept"))
        ELSE IF params.secure /\ ~getTLSConfig(env)
        THEN RunDefers(Error(acc, "tlsconfig"))
        ELSE IF Outcome(env, "file") # "ok" THEN RunDefers(Error(ch, "file"))
        ELSE IF Outcome(env, "copy") # "ok" THEN RunDefers(Error(f, "copy"))
        ELSE RunDefers(fin)

\* the deferred function with quit called only when the operation has no
\* error so far
deferredQuit_OnlyOnSuccess(body, env) ==
    IF params.keepAlive \/ Failed(body) THEN body
    ELSE LET q == quit(body, env)
         IN  IF q.panicked THEN Panic(q)
             ELSE IF Failed(q) THEN q
             ELSE Push(q)

\* the function list, download and upload defer when keepAlive is false:
\* r, err = this.quit() assigns the operation's named result err, and r is
\* appended only when quit returned no error.  It runs on a fault too.
deferredQuit(body, env) ==
    IF params.keepAlive THEN body
    ELSE LET q == quit([body EXCEPT !.err = "nil", !.panicked = FALSE], env)
         IN  IF body.panicked \/ q.panicked THEN Panic(q)
             ELSE IF Failed(q) THEN q
             ELSE Push(q)

\* the steps list, download and upload share: negotiate, the command
\* (expecting 150), the transfer
transfer(st, cmd, env) ==
    LET n == negotiate(st, env)
        c == Command(Push(n), cmd, 150, Outcome(env, "xfer"))
        t == CASE cmd = "LIST" -> readBytes(Push(c), env)
               [] cmd = "RETR" -> fileTransfer(Push(c), "DOWNLOAD", env)
               [] cmd = "STOR" -> fileTransfer(Push(c), "UPLOAD", env)
    IN  IF Failed(n) THEN n
        ELSE IF Failed(c) THEN c
        ELSE IF Failed(t) THEN t
        ELSE Push(t)

\* Ftp.list
list(st, env) == deferredQuit(transfer(st, "LIST", env), env)

\* Ftp.download
download(st, env) == deferredQuit(transfer(st, "RETR", env), env)

\* Ftp.upload
upload(st, env) == deferredQuit(transfer(st, "STOR", env), env)

(***************************************************************************)
(* The session's specification: a new session, then any sequence of        *)
(* operations.  The engine's methods do not look at State; their callers   *)
(* (the lifecycle controller, not part of ftp.go) connect first: connect   *)
(* is called on a session that is OFFLINE, the other operations, in any    *)
(* order and any number of times, on one that is ONLINE, a session that    *)
(* quit has closed included.                                               *)
(***************************************************************************)
\* the session may be connected: it is new, or its connect failed
CanConnect == ftp.State = OFFLINE

\* the session may be operated: a connect has succeeded
CanOperate == ftp.State = ONLINE

NoCodec ==
    [fn |-> "none", tmp5 |-> <<>>, tmp6 |-> <<>>, h |-> 0, l |-> 0,
     port |-> 0, port1 |-> 0, port2 |-> 0, err |-> "nil",
     addrs |-> <<>>, ip |-> ""]

\* nothing has happened on the wire: no PROT P exchange has succeeded, no
\* USER command has been written, no reply is unread
NoHistory == [protOK |-> FALSE, userSent |-> FALSE, unread |-> "none"]

NewCall ==
    [op |-> "newFtp", res |-> <<>>, err |-> "nil", trace |-> <<>>,
     panicked |-> FALSE, failures |-> <<>>, before |-> NoHistory,
     reply |-> NoReply, dial |-> NoDial]

Init ==
    /\ params \in Sessions
    /\ ftp = newFtp
    /\ hist = NoHistory
    /\ call = NewCall
    /\ codec = NoCodec

\* the operation returns (or faults): the session it leaves and the results
Return(op, st) ==
    /\ ftp' = st.ftp
    /\ hist' = st.hist
    /\ call' = [op |-> op,
                res |-> IF st.panicked THEN <<>> ELSE st.res,
                err |-> IF st.panicked THEN "nil" ELSE st.err,
                trace |-> st.trace,
                panicked |-> st.panicked,
                failures |-> st.failures,
                before |-> hist,
                reply |-> st.reply,
                dial |-> st.dial]
    /\ UNCHANGED <<params, codec>>

ConnectFails ==
    {<<"lookup", "fail">>, <<"tlsconf", "fail">>, <<"dial", "fail">>}
        \cup Exchange("greet")

AuthFails ==
    Exchange("AUTH") \cup {<<"tlsconf", "fail">>} \cup Exchange("USER")
        \cup Exchange("PASS")

OptionsFails ==
    Exchange("SYST") \cup Exchange("FEAT") \cup Exchange("OPTS")
        \cup Exchange("PROT") \cup Exchange("TYPE")

\* the steps of a transfer that can fail in this session: those of the
\* mode (passive or active) and security setting in effect; `file` is
\* whether the operation opens a local file (download, upload)
TransferFails(file) ==
    Exchange("nego") \cup Exchange("xfer") \cup Exchange("226")
        \cup {<<"copy", "fail">>}
        \cup (IF params.passive
              THEN {<<"lookup", "fail">>, <<"pasvtext", "nomatch">>,
                    <<"dial", "fail">>}
              ELSE {<<"localip", "fail">>, <<"listen", "fail">>,
                    <<"accept", "fail">>})
        \cup (IF params.secure THEN {<<"tlsconf", "fail">>} ELSE {})
        \cup (IF file THEN {<<"file", "fail">>} ELSE {})

QuitOutcomes == {"ok", "code", "io"}

\* the outcomes of the deferred QUIT: none to choose when none is sent
DeferredQuitOutcomes == IF params.keepAlive THEN {"ok"} ELSE QuitOutcomes

\* the PASV replies: none to choose in active mode
ReplyOctets == IF params.passive THEN SampleOctets ELSE {<<>>}

Connect ==
    /\ CanConnect
    /\ \E fp \in ConnectFails \cup {NoFail} :
          Return("connect", connect(Start, Outcomes(fp, "ok", <<>>)))

Auth ==
    /\ CanOperate
    /\ \E fp \in AuthFails \cup {NoFail} :
          Return("auth", auth(Start, Outcomes(fp, "ok", <<>>)))

Options ==
    /\ CanOperate
    /\ \E fp \in OptionsFails \cup {NoFail} :
          Return("options", options(Start, Outcomes(fp, "ok", <<>>)))

List ==
    /\ CanOperate
    /\ \E fp \in TransferFails(FALSE) \cup {NoFail},
          q \in DeferredQuitOutcomes, oct \in ReplyOctets :
          Return("list", list(Start, Outcomes(fp, q, oct)))

Download ==
    /\ CanOperate
    /\ \E fp \in TransferFails(TRUE) \cup {NoFail},
          q \in DeferredQuitOutcomes, oct \in ReplyOctets :
          Return("download", download(Start, Outcomes(fp, q, oct)))

Upload ==
    /\ CanOperate
    /\ \E fp \in TransferFails(TRUE) \cup {NoFail},
          q \in DeferredQuitOutcomes, oct \in ReplyOctets :
          Return("upload", upload(Start, Outcomes(fp, q, oct)))

Rename ==
    /\ CanOperate
    /\ \E fp \in Exchange("RNFR") \cup Exchange("RNTO") \cup {NoFail} :
          Return("rename", rename(Start, Outcomes(fp, "ok", <<>>)))

Mkdir ==
    /\ CanOperate
    /\ \E fp \in Exchange("cmd") \cup {NoFail} :
          Return("mkdir",
                 simple(Start, "MKD", 257, Outcomes(fp, "ok", <<>>)))

Rmdir ==
    /\ CanOperate
    /\ \E fp \in Exchange("cmd") \cup {NoFail} :
          Return("rmdir",
                 simple(Start, "RMD", 250, Outcomes(fp, "ok", <<>>)))

Delete ==
    /\ CanOperate
    /\ \E fp \in Exchange("cmd") \cup {NoFail} :
          Return("delete",
                 simple(Start, "DELE", 200, Outcomes(fp, "ok", <<>>)))

Quit ==
    /\ CanOperate
    /\ \E q \in QuitOutcomes :
          LET st == quit(Start, Outcomes(NoFail, q, <<>>))
          IN  Return("quit", IF Failed(st) THEN st ELSE Push(st))

Next ==
    \/ Connect
    \/ Auth
    \/ Options
    \/ List
    \/ Download
    \/ Upload
    \/ Rename
    \/ Mkdir
    \/ Rmdir
    \/ Delete
    \/ Quit

Spec == Init /\ [][Next]_vars

(***************************************************************************)
(* The PORT encoding on its own: every listen port 0 .. MaxListenPort.     *)
(***************************************************************************)
InitPort ==
    /\ params \in [secure : {FALSE}, secureMode : {EXPLICIT},
                   passive : {FALSE}, keepAlive : {TRUE},
                   listenPort : 0 .. MaxListenPort]
    /\ ftp = newFtp
    /\ hist = NoHistory
    /\ call = NewCall
    /\ codec = NoCodec

SplitPorts ==
    /\ codec.fn = "none"
    /\ LET sp == getSplitPorts(params.listenPort)
       IN  codec' = [codec EXCEPT !.fn = "getSplitPorts",
                                  !.port1 = sp.port1, !.port2 = sp.port2,
                                  !.err = sp.err]
    /\ UNCHANGED <<params, ftp, hist, call>>

NextPort == SplitPorts

SpecPort == InitPort /\ [][NextPort]_vars

(***************************************************************************)
(* The PASV decoding on its own: every reply whose port octets are         *)
(* 0 .. MaxOctet, as the decimal text the server sends.                    *)
(***************************************************************************)
InitPasv ==
    /\ params \in [secure : {FALSE}, secureMode : {EXPLICIT},
                   passive : {TRUE}, keepAlive : {TRUE},
                   listenPort : {0}]
    /\ ftp = newFtp
    /\ hist = NoHistory
    /\ call = NewCall
    /\ \E h \in 0 .. MaxOctet, l \in 0 .. MaxOctet :
          codec = [NoCodec EXCEPT !.fn = "reply", !.h = h, !.l = l,
                                  !.tmp5 = FormatBase(h, 10),
                                  !.tmp6 = FormatBase(l, 10)]

PasvDecode ==
    /\ codec.fn = "reply"
    /\ codec' = [codec EXCEPT !.fn = "pasv",
                              !.port = pasvPort(codec.tmp5, codec.tmp6)]
    /\ UNCHANGED <<params, ftp, hist, call>>

NextPasv == PasvDecode

SpecPasv == InitPasv /\ [][NextPasv]_vars

(***************************************************************************)
(* The local address discovery on its own: every list of at most MaxAddrs  *)
(* interface addresses drawn from InterfaceAddrs.                          *)
(***************************************************************************)
InitLocalIP ==
    /\ params \in [secure : {FALSE}, secureMode : {EXPLICIT},
                   passive : {FALSE}, keepAlive : {TRUE},
                   listenPort : {0}]
    /\ ftp = newFtp
    /\ hist = NoHistory
    /\ call = NewCall
    /\ \E n \in 0 .. MaxAddrs : \E addrs \in [1 .. n -> InterfaceAddrs] :
          codec = [NoCodec EXCEPT !.fn = "addrs", !.addrs = addrs]

LocalIP ==
    /\ codec.fn = "addrs"
    /\ LET got == getLocalIP(codec.addrs)
       IN  codec' = [codec EXCEPT !.fn = "getLocalIP", !.ip = got.ip,
                                  !.err = got.err]
    /\ UNCHANGED <<params, ftp, hist, call>>

NextLocalIP == LocalIP

SpecLocalIP == InitLocalIP /\ [][NextLocalIP]_vars

(***************************************************************************)
(* Claims.                                                                 *)
(***************************************************************************)
\* the largest 16-bit port
MaxPort16 == 256 * 256 - 1

\* C1: for every PASV reply whose port octets h and l are in 0..255, pasv
\* dials port h*256 + l (checked under SpecPasv).
C1_PasvPortIsBytePair ==
    (codec.fn = "pasv" /\ codec.h <= 255 /\ codec.l <= 255)
        => codec.port = codec.h * 256 + codec.l

\* C2: for every listen port p in 0..65535 getSplitPorts returns no error
\* and octets port1, port2 in 0..255 with port1*256 + port2 = p, and
\* port1 = 0 when p < 256 (checked under SpecPort).
C2_SplitPortsRoundTrip ==
    (codec.fn = "getSplitPorts" /\ params.listenPort <= MaxPort16)
        => /\ codec.err = "nil"
           /\ codec.port1 \in 0 .. 255
           /\ codec.port2 \in 0 .. 255
           /\ codec.port1 * 256 + codec.port2 = params.listenPort
           /\ (params.listenPort < 256 => codec.port1 = 0)

\* C2's case: a three-hex-digit port, 2748 = 0xabc, split into 10 and 188
C2_Witness ==
    /\ codec.fn = "getSplitPorts"
    /\ params.listenPort = 2748
    /\ codec.port1 = 10
    /\ codec.port2 = 188
    /\ codec.err = "nil"

(***************************************************************************)
(* What a call's record shows.                                             *)
(***************************************************************************)
Transfers == {"list", "download", "upload"}

Composite == {"auth", "options", "rename"} \cup Transfers

\* the commands of a response list, in order
Cmds(res) == [i \in 1 .. Len(res) |-> res[i].command]

\* a command the engine wrote, or tried to write, to the control channel
IsCommand(e) == e.ev \in {"send", "sendfail"}

IsSend(e) == e.ev = "send"

\* the commands written to the control channel, in order
SentCmds(tr) ==
    LET sent == SelectSeq(tr, IsSend)
    IN  [i \in 1 .. Len(sent) |-> sent[i].cmd]

\* an exchange that failed: the write failed, the read failed, or the
\* status code read is not the one expected
IsFailure(e) ==
    \/ e.ev \in {"sendfail", "ioerr"}
    \/ e.ev = "recv" /\ e.code = 550
    \/ e.ev = "recv" /\ e.code = 226 /\ e.cmd # ""

\* something read from or written to the control channel
IsControl(e) == e.ev \in {"send", "sendfail", "recv", "ioerr"}

\* what was done, without the channel's wrapping and the codes
Shape(tr) == [i \in 1 .. Len(tr) |-> <<tr[i].ev, tr[i].cmd>>]

IsPrefix(a, b) == Len(a) <= Len(b) /\ a = SubSeq(b, 1, Len(a))

\* the QUIT exchange of the call succeeded: 221 was read
QuitSucceeded ==
    \E i \in 1 .. Len(call.trace) :
        /\ call.trace[i].ev = "recv"
        /\ call.trace[i].cmd = "QUIT"
        /\ call.trace[i].code = 221

\* quit was called once, after every other command of the call
QuitIssuedLast ==
    LET cs == SelectSeq(call.trace, IsCommand)
    IN  /\ Len(cs) > 0
        /\ cs[Len(cs)].cmd = "QUIT"
        /\ \A i \in 1 .. Len(cs) - 1 : cs[i].cmd # "QUIT"

NoQuit ==
    /\ \A i \in 1 .. Len(call.trace) : call.trace[i].cmd # "QUIT"
    /\ \A i \in 1 .. Len(call.res) : call.res[i].command # "QUIT"

\* C3: whenever a step of list, download or upload fails, the operation
\* returns a non-nil error, whatever the keep-alive flag and whatever
\* becomes of a later QUIT.
C3_FailureReturnsError ==
    (call.op \in Transfers /\ ~call.panicked /\ call.failures # <<>>)
        => call.err # "nil"

\* C4 as stated: with keep-alive false every list, download or upload
\* issues QUIT after its other steps and the QUIT response is always the
\* last element of the list returned; with keep-alive true none sends QUIT.
C4_QuitResponseAlwaysLast ==
    call.op \in Transfers =>
        IF params.keepAlive THEN NoQuit
        ELSE /\ QuitIssuedLast
             /\ ~call.panicked =>
                    /\ call.res # <<>>
                    /\ call.res[Len(call.res)].command = "QUIT"

\* C4 as amended: with keep-alive false every list, download or upload
\* calls quit once, after its other steps; if the QUIT exchange succeeds
\* the QUIT response is the last element of the list returned, and the
\* only QUIT response in it; if it fails the list holds no QUIT response
\* and the call returns an error.  With keep-alive true none sends QUIT.
C4_QuitResponseLastWhenQuitSucceeds ==
    call.op \in Transfers =>
        IF params.keepAlive THEN NoQuit
        ELSE /\ QuitIssuedLast
             /\ (~call.panicked /\ QuitSucceeded) =>
                    /\ call.res # <<>>
                    /\ call.res[Len(call.res)] = FtpResponse("QUIT", 221)
                    /\ \A i \in 1 .. Len(call.res) - 1 :
                          call.res[i].command # "QUIT"
             /\ (~call.panicked /\ ~QuitSucceeded) =>
                    /\ \A i \in 1 .. Len(call.res) :
                          call.res[i].command # "QUIT"
                    /\ call.err # "nil"

\* C4's case: a list without keep-alive whose four exchanges succeed
C4_Witness ==
    /\ call.op = "list"
    /\ ~params.keepAlive
    /\ ~call.panicked
    /\ Len(call.res) = 4
    /\ call.res[4].command = "QUIT"

\* C5: an auth that succeeds returns, with security in explicit mode, the
\* responses to AUTH TLS, USER, PASS in that order, the TLS upgrade done
\* after the AUTH TLS response was read and before USER is written;
\* otherwise the responses to USER, PASS, and no AUTH TLS is written.
C5_AuthResponses ==
    (call.op = "auth" /\ ~call.panicked /\ call.err = "nil") =>
        IF params.secure /\ params.secureMode = EXPLICIT
        THEN /\ call.res = <<FtpResponse("AUTH TLS", 234),
                             FtpResponse("USER", 331),
                             FtpResponse("PASS", 230)>>
             /\ Shape(call.trace) =
                    <<<<"send", "AUTH TLS">>, <<"recv", "AUTH TLS">>,
                      <<"upgrade", "ctrl">>,
                      <<"send", "USER">>, <<"recv", "USER">>,
                      <<"send", "PASS">>, <<"recv", "PASS">>>>
        ELSE /\ call.res = <<FtpResponse("USER", 331),
                             FtpResponse("PASS", 230)>>
             /\ Shape(call.trace) =
                    <<<<"send", "USER">>, <<"recv", "USER">>,
                      <<"send", "PASS">>, <<"recv", "PASS">>>>

\* C5's case: a successful auth in explicit mode, three responses
C5_Witness ==
    /\ call.op = "auth"
    /\ call.err = "nil"
    /\ params.secure
    /\ params.secureMode = EXPLICIT
    /\ Len(call.res) = 3

\* the order of the commands of options
OptionsOrder ==
    IF params.secure
    THEN <<"SYST", "FEAT", "OPTS UTF8 ON", "PROT P", "TYPE I">>
    ELSE <<"SYST", "FEAT", "OPTS UTF8 ON", "TYPE I">>

\* C6: options writes its commands in the order SYST, FEAT, OPTS UTF8 ON,
\* PROT P (if and only if secure is set), TYPE I; a run that succeeds has
\* written them all, TYPE I last.
C6_OptionsOrder ==
    call.op = "options" =>
        /\ IsPrefix(SentCmds(call.trace), OptionsOrder)
        /\ call.err = "nil" =>
              /\ SentCmds(call.trace) = OptionsOrder
              /\ Cmds(call.res) = OptionsOrder

\* C6's case: options succeeds on a secure session, PROT P before TYPE I
C6_Witness ==
    /\ call.op = "options"
    /\ call.err = "nil"
    /\ params.secure
    /\ Len(call.res) = 5
    /\ call.res[4].command = "PROT P"
    /\ call.res[5].command = "TYPE I"

\* C7: in auth, options, rename, list, download and upload, once an
\* exchange on the control channel has failed no later command is written,
\* the failed one included, but the QUIT of a list, download or upload
\* without keep-alive.
C7_NoCommandAfterFailure ==
    call.op \in Composite =>
        \A i \in 1 .. Len(call.trace) : \A j \in 1 .. Len(call.trace) :
            (i < j /\ IsFailure(call.trace[i]) /\ IsCommand(call.trace[j]))
                => /\ call.trace[j].cmd = "QUIT"
                   /\ call.trace[i].cmd # "QUIT"
                   /\ call.op \in Transfers
                   /\ ~params.keepAlive

\* C7's case: a download whose RETR is answered 550; only QUIT follows
C7_Witness ==
    /\ call.op = "download"
    /\ ~params.keepAlive
    /\ \E i \in 1 .. Len(call.trace) :
          /\ call.trace[i] = Event("recv", "RETR", FALSE, 550)
          /\ i + 1 \in 1 .. Len(call.trace)
          /\ call.trace[i + 1] = Event("send", "QUIT", FALSE, 0)

\* the 220 greeting was read
GreetingRead(tr) ==
    \E i \in 1 .. Len(tr) :
        tr[i].ev = "recv" /\ tr[i].cmd = "" /\ tr[i].code = 220

\* C8: a new session is OFFLINE; it becomes ONLINE exactly when a connect
\* has read a 220 greeting, and stays OFFLINE when connect fails; once
\* ONLINE it never is OFFLINE again, whatever is called.
C8_StateLifecycle ==
    /\ [](call.op = "newFtp" => ftp.State = OFFLINE)
    /\ [][/\ ftp.State = ONLINE => ftp'.State = ONLINE
          /\ ftp.State = OFFLINE =>
                (ftp'.State = ONLINE
                    <=> (call'.op = "connect" /\ GreetingRead(call'.trace)))
         ]_vars

\* C8's case: the session is still ONLINE after quit closed it
C8_Witness ==
    /\ call.op = "quit"
    /\ ftp.ctrlClosed
    /\ ftp.State = ONLINE

\* the command USER was written before event i of the call
UserSentBy(i) ==
    \/ call.before.userSent
    \/ \E k \in 1 .. i : call.trace[k] = Event("send", "USER", TRUE, 0)
    \/ \E k \in 1 .. i : call.trace[k] = Event("send", "USER", FALSE, 0)

\* C9: with secure set, everything read or written on the control channel
\* from the USER command on goes through the TLS wrapper: in implicit mode
\* the channel is TLS from the dial on, the greeting included; in explicit
\* mode the greeting is plain and the only command auth writes in plain
\* text is AUTH TLS.  Without secure the control channel is never TLS.
C9_ControlChannelTLS ==
    /\ ~params.secure => (ftp.ctrlConn # "tls" /\ ftp.tlsConn = "nil")
    /\ (params.secure /\ hist.userSent) => ftp.ctrlConn = "tls"
    /\ (params.secure /\ params.secureMode = IMPLICIT /\ ftp.State = ONLINE)
          => ftp.ctrlConn = "tls"
    /\ \A i \in 1 .. Len(call.trace) :
           LET e == call.trace[i]
           IN  /\ (IsControl(e) /\ ~params.secure) => ~e.tls
               /\ (e.cmd = "ctrl" /\ ~params.secure) => ~e.tls
               /\ (IsControl(e) /\ params.secure /\ UserSentBy(i)) => e.tls
               /\ (IsControl(e) /\ params.secure
                       /\ params.secureMode = IMPLICIT) => e.tls
               /\ (e.cmd = "ctrl" /\ params.secure
                       /\ params.secureMode = IMPLICIT) => e.tls
               /\ (IsControl(e) /\ params.secure /\ ~e.tls
                       /\ call.op \in {"connect", "auth"})
                     => \/ call.op = "connect" /\ e.cmd = ""
                        \/ call.op = "auth" /\ e.cmd = "AUTH TLS"

\* C9's case: an explicit-mode session after USER; options goes through TLS
C9_Witness ==
    /\ params.secure
    /\ params.secureMode = EXPLICIT
    /\ call.op = "options"
    /\ call.before.userSent
    /\ call.err = "nil"
    /\ call.trace[1] = Event("send", "SYST", TRUE, 0)

\* C10: the data channel of a list, download or upload is TLS-wrapped only
\* if a PROT P exchange succeeded earlier on the session.
C10_DataTLSOnlyAfterProtP ==
    \A i \in 1 .. Len(call.trace) :
        (call.trace[i].ev = "wrap" /\ call.trace[i].cmd = "dataTLS")
            => call.before.protOK

\* a response read from the control channel with the status code expected
IsValidated(e) == e.ev = "recv" /\ ~IsFailure(e)

\* the responses read and validated during the call, in the order read
ValidatedResponses(tr) ==
    LET got == SelectSeq(tr, IsValidated)
    IN  [i \in 1 .. Len(got) |-> FtpResponse(got[i].cmd, got[i].code)]

\* C11: the list returned by list, download or upload holds, in the order
\* read, one record for every control-channel response read and validated
\* during the call (the PASV or PORT reply, 150, 226, QUIT), on failing
\* calls as well: an exchange completed before the failure is present.
C11_ResponsesAreTheValidatedReplies ==
    (call.op \in Transfers /\ ~call.panicked)
        => call.res = ValidatedResponses(call.trace)

\* C12: the data connection of passive mode is dialed at the first address
\* the lookup of the control host returned, whatever the four address
\* octets of the 227 reply are: replies that differ only in those octets
\* give the same dial target.
C12_PasvDialsControlHost ==
    (call.op \in Transfers /\ call.dial # NoDial)
        => /\ call.dial.addr = HostIPs[1]
           /\ call.dial.port = pasvPort(FormatBase(call.reply.nums[5], 10),
                                        FormatBase(call.reply.nums[6], 10))

\* C12's case: a reply naming another address, and the host dialed
C12_Witness ==
    /\ call.op = "list"
    /\ call.reply.seen
    /\ call.reply.nums # <<>>
    /\ SubSeq(call.reply.nums, 1, 4) \notin {HostIPs[1], HostIPs[2]}
    /\ call.dial.addr = HostIPs[1]

\* C13: with a listen port above 65535, port fails with an error before
\* any PORT command is written and before any listening socket is opened:
\* getSplitPorts reports every such port, and an active-mode list, download
\* or upload of such a session raises an error, writes no PORT and listens
\* on nothing.
C13_PortAbove16BitsFails ==
    /\ \A p \in MaxPort16 + 1 .. MaxListenPort : getSplitPorts(p).err # "nil"
    /\ (call.op \in Transfers /\ ~params.passive
            /\ params.listenPort > MaxPort16)
        => /\ call.failures # <<>>
           /\ call.failures[1] \in {"localip", "port format"}
           /\ \A i \in 1 .. Len(call.trace) :
                  /\ call.trace[i].cmd # "PORT"
                  /\ call.trace[i].ev \notin {"listen", "accept"}

\* C13's case: an active-mode list with listen port 70000 stopped by
\* getSplitPorts
C13_Witness ==
    /\ call.op = "list"
    /\ ~params.passive
    /\ params.listenPort > MaxPort16
    /\ params.keepAlive
    /\ call.failures = <<"port format">>
    /\ call.err = "port format"
    /\ call.trace = <<>>

\* the 150 response has been read before event i of the trace
After150(tr, i) ==
    \E k \in 1 .. i - 1 : tr[k].ev = "recv" /\ tr[k].code = 150

\* Close has been called on resource x before event i of the trace
ClosedBefore(tr, i, x) ==
    \E k \in 1 .. i - 1 : tr[k].ev = "close" /\ tr[k].cmd = x

\* the data channel has been wrapped in TLS before event i of the trace
WrappedBefore(tr, i) ==
    \E k \in 1 .. i - 1 : tr[k].ev = "wrap" /\ tr[k].cmd = "dataTLS"

\* event e is the read of the response that confirms a transfer
IsConfirmation(e) == e.ev \in {"recv", "ioerr"} /\ e.cmd = ""

\* C14: in every list, download and upload the accept of active mode and
\* every read or write of data-channel bytes come after the 150 response
\* has been read, and the 226 confirmation is read only after the data
\* channel has been closed: its TLS layer when there is one, and the
\* connection beneath, which Close of the TLS layer closes as well.
C14_DataPhaseOrder ==
    call.op \in Transfers =>
        \A i \in 1 .. Len(call.trace) :
            /\ call.trace[i].ev \in {"accept", "read", "copy"}
                   => After150(call.trace, i)
            /\ IsConfirmation(call.trace[i])
                   => /\ WrappedBefore(call.trace, i)
                          => ClosedBefore(call.trace, i, "dataTLS")
                      /\ \/ ClosedBefore(call.trace, i, "dataTLS")
                         \/ ClosedBefore(call.trace, i, "dataConn")

\* C14's case: an active-mode list over TLS that read its confirmation
C14_Witness ==
    /\ call.op = "list"
    /\ ~params.passive
    /\ params.keepAlive
    /\ call.err = "nil"
    /\ Shape(call.trace) =
           <<<<"send", "PORT">>, <<"recv", "PORT">>,
             <<"listen", "listener">>, <<"send", "LIST">>,
             <<"recv", "LIST">>, <<"accept", "dataConn">>,
             <<"wrap", "dataTLS">>, <<"read", "data">>,
             <<"close", "dataTLS">>, <<"recv", "">>,
             <<"close", "dataTLS">>, <<"close", "dataConn">>>>

\* the resources of the data phase
DataResources == {"listener", "dataConn", "dataTLS", "file"}

\* resource x was acquired during the call: the listener by net.Listen,
\* the data connection by net.Dial or Accept, its TLS layer by tls.Client,
\* the local file by os.Create or os.Open
Acquired(tr, x) ==
    \E i \in 1 .. Len(tr) :
        /\ tr[i].cmd = x
        /\ tr[i].ev \in {"listen", "dial", "accept", "wrap", "open"}

\* the number of Close calls on resource x during the call
CloseCalls(tr, x) ==
    Len(SelectSeq(tr, LAMBDA e : e.ev = "close" /\ e.cmd = x))

\* resource x was released during the call; Close of the TLS layer
\* releases the data connection it wraps
Released(tr, x) ==
    \/ CloseCalls(tr, x) > 0
    \/ x = "dataConn" /\ CloseCalls(tr, "dataTLS") > 0

\* C15: on every path of list, download and upload each resource acquired
\* (listener, data connection, its TLS layer, local file) is released
\* exactly once before the operation returns: none is left open and none
\* is closed twice.
C15_ResourcesReleasedOnce ==
    call.op \in Transfers =>
        \A x \in DataResources :
            Acquired(call.trace, x)
                => /\ Released(call.trace, x)
                   /\ CloseCalls(call.trace, x) <= 1

\* the number of times the call closed the TLS layer of the control
\* channel: by tlsConn.Close, and by ctrlConn.Close when the textproto
\* connection is built on it
TLSReleases ==
    CloseCalls(call.trace, "tlsConn")
        + (IF ftp.ctrlConn = "tls" THEN CloseCalls(call.trace, "ctrlConn")
           ELSE 0)

\* the number of times the call closed the raw socket: by rawConn.Close, by
\* ctrlConn.Close when the textproto connection is built on it, and by
\* each close of a TLS layer that wraps it
RawReleases ==
    CloseCalls(call.trace, "rawConn")
        + (IF ftp.ctrlConn = "raw" THEN CloseCalls(call.trace, "ctrlConn")
           ELSE 0)
        + (IF ftp.tlsConn # "nil" THEN TLSReleases ELSE 0)

\* the raw socket is not closed before the TLS layer
TLSClosedBeforeRaw ==
    \A i, j \in 1 .. Len(call.trace) :
        (call.trace[i].ev = "close" /\ call.trace[i].cmd = "rawConn"
            /\ call.trace[j].ev = "close" /\ call.trace[j].cmd = "tlsConn")
        => j < i

\* C16: quit releases each layer of the control channel the session holds
\* (textproto connection, TLS layer, raw socket) exactly once and closes
\* the TLS layer before the raw socket beneath it, in every security
\* configuration.
C16_QuitReleasesLayersOnce ==
    (call.op = "quit" /\ ~call.panicked)
        => /\ CloseCalls(call.trace, "ctrlConn") = 1
           /\ ftp.tlsConn # "nil" => TLSReleases = 1
           /\ ftp.rawConn # "nil" => RawReleases = 1
           /\ TLSClosedBeforeRaw

\* the 227 reply was read and its text does not hold six comma-separated
\* numbers
ReplyMalformed == call.reply.seen /\ call.reply.nums = <<>>

\* C17: when the text of the 227 reply does not hold six comma-separated
\* numbers, pasv returns an error and dials no data connection: the
\* program does not abort.
C17_MalformedReplyIsAnError ==
    (call.op \in Transfers /\ ReplyMalformed)
        => /\ ~call.panicked
           /\ call.failures # <<>>
           /\ call.dial = NoDial

\* an address getLocalIP may return
IsUsable(a) == ~a.loopback /\ a.v4

\* C18: from the ordered list of interface addresses getLocalIP returns
\* the first address that is not a loopback address and is an IPv4 address,
\* also when there are several, and an error exactly when there is none.
C18_FirstNonLoopbackIPv4 ==
    codec.fn = "getLocalIP" =>
        LET usable == SelectSeq(codec.addrs, IsUsable)
        IN  IF usable = <<>> THEN codec.err # "nil"
            ELSE codec.err = "nil" /\ codec.ip = usable[1].ip

\* C19: on a keep-alive session, whatever operations came before and
\* however they ended, no reply of the server is unread on the control
\* channel when a command is written, so that the response a command
\* returns is the reply to that command.
C19_NoReplyPendingAtWrite ==
    (params.keepAlive /\ call.before.unread # "none")
        => \A i \in 1 .. Len(call.trace) : call.trace[i].ev # "send"

\* C20: after a successful connect, quit, called directly or by a list,
\* download or upload with keep-alive off, closes only handles the session
\* holds: it ends with a response or an error and does not fault, also in
\* an explicit-security session whose authenticate has not run or has
\* failed at AUTH TLS, where there is no TLS handle.
C20_QuitDoesNotFault ==
    \/ call.op = "quit"
    \/ call.op \in Transfers /\ ~params.keepAlive /\ ~ReplyMalformed
    => ~call.panicked

====
